---- MODULE Spec2Model ----
(***************************************************************************)
(* Model of src/ht04.py: asynchronous sorting of files into one folder per *)
(* extension.  read_folder discovers the files of the source tree, creates *)
(* one asyncio task per file (copy_file) and gathers their outcomes; every *)
(* task creates its bucket directory, picks a free target name, takes a    *)
(* permit of the semaphore and copies with retries (copy_with_retries).    *)
(*                                                                         *)
(* A file name is a sequence of one-character strings, a path a sequence   *)
(* of names.  Delays are counted in units of the configured retry delay.   *)
(* pathlib is modelled with the POSIX flavour of Python 3.11-3.13.         *)
(***************************************************************************)
EXTENDS Integers, Sequences, FiniteSets, TLC

VARIABLES
    cfg,          \* arguments of the run and the file systems it starts from
    main_pc,      \* position of main / read_folder
    exit_status,  \* exit status of the process, -1 while it runs
    files,        \* read_folder: files (tasks[k] processes files[k])
    summary,      \* read_folder: the counts of the final log line
    sem,          \* read_folder: free permits of sem
    dirs,         \* bucket directories existing under out_root
    dest,         \* files under out_root: <<bucket, name>> -> owner
    pc,           \* position of each copy_file task
    folder,       \* copy_file: folder
    i,            \* _unique_target_path: i (0 for the first candidate)
    target,       \* copy_file: target (the file name inside the bucket)
    attempt,      \* copy_with_retries: attempt
    backoff,      \* copy_with_retries: backoff
    result,       \* the tuples a task has returned, in order
    copies,       \* number of aioshutil.copy2 calls a task has started
    waits,        \* the delays a task has slept, in order
    locked_fails  \* number of copy2 failures of a task that _is_locked_error accepts

vars == <<cfg, main_pc, exit_status, files, summary, sem, dirs, dest, pc, folder,
          i, target, attempt, backoff, result, copies, waits, locked_fails>>

(***************************************************************************)
(* Bounds of the model.                                                    *)
(***************************************************************************)
MaxWorkers == 4
MaxRetries == 2
MaxNameLen == 3

(***************************************************************************)
(* Strings.                                                                *)
(***************************************************************************)
Upper == <<"A","B","C","D","E","F","G","H","I","J","K","L","M",
           "N","O","P","Q","R","S","T","U","V","W","X","Y","Z">>
Lower == <<"a","b","c","d","e","f","g","h","i","j","k","l","m",
           "n","o","p","q","r","s","t","u","v","w","x","y","z">>
Digit == <<"0","1","2","3","4","5","6","7","8","9">>

\* str.lower() of one character
lower_char(c) ==
    IF \E k \in 1..Len(Upper) : Upper[k] = c
    THEN Lower[CHOOSE k \in 1..Len(Upper) : Upper[k] = c]
    ELSE c

\* str.lower()
lower(s) == [k \in 1..Len(s) |-> lower_char(s[k])]

\* str.lstrip(".")
RECURSIVE lstrip_dots(_)
lstrip_dots(s) ==
    IF s # <<>> /\ Head(s) = "." THEN lstrip_dots(Tail(s)) ELSE s

\* str.rfind("."), counted from 1; 0 when there is none
rfind_dot(s) ==
    IF \E k \in 1..Len(s) : s[k] = "."
    THEN CHOOSE k \in 1..Len(s) : s[k] = "." /\ \A m \in (k+1)..Len(s) : s[m] # "."
    ELSE 0

\* str(i) of a natural number
RECURSIVE str_int(_)
str_int(n) ==
    IF n < 10 THEN <<Digit[n + 1]>>
    ELSE str_int(n \div 10) \o <<Digit[(n % 10) + 1]>>

\* PurePath.suffix of a file name: from the last "." on, unless that "." is the
\* first or the last character
suffix(name) ==
    LET k == rfind_dot(name)
    IN  IF 1 < k /\ k < Len(name) THEN SubSeq(name, k, Len(name)) ELSE <<>>

\* PurePath.stem of a file name
stem(name) ==
    LET k == rfind_dot(name)
    IN  IF 1 < k /\ k < Len(name) THEN SubSeq(name, 1, k - 1) ELSE name

no_extension == <<"n","o","_","e","x","t","e","n","s","i","o","n">>

\* ext_folder_name without .lower()
ext_folder_name_no_lower(name) ==
    LET ext == lstrip_dots(suffix(name))
    IN  IF ext # <<>> THEN ext ELSE no_extension

ext_folder_name(name) ==
    LET ext == lstrip_dots(lower(suffix(name)))
    IN  IF ext # <<>> THEN ext ELSE no_extension

\* _unique_target_path with the counter put after the whole file name
candidate_after_suffix(filename, n) ==
    IF n = 0 THEN filename
    ELSE filename \o <<" ", "(">> \o str_int(n) \o <<")">>

\* the candidates of _unique_target_path: filename, then "stem (i)suffix"
candidate(filename, n) ==
    IF n = 0 THEN filename
    ELSE stem(filename) \o <<" ", "(">> \o str_int(n) \o <<")">> \o suffix(filename)

\* fnmatch.fnmatchcase of one path segment against one pattern segment
RECURSIVE fnmatchcase(_, _)
fnmatchcase(s, p) ==
    IF p = <<>> THEN s = <<>>
    ELSE IF Head(p) = "*"
         THEN fnmatchcase(s, Tail(p)) \/ (s # <<>> /\ fnmatchcase(Tail(s), p))
         ELSE /\ s # <<>>
              /\ (Head(p) = "?" \/ Head(p) = Head(s))
              /\ fnmatchcase(Tail(s), Tail(p))

\* PurePath.match of a relative path against a relative pattern: the pattern's
\* segments are compared with the path's last segments
path_match(parts, pat) ==
    /\ Len(pat) <= Len(parts)
    /\ \A k \in 1..Len(pat) : fnmatchcase(parts[Len(parts) - Len(pat) + k], pat[k])

\* iter_files_recursive testing the first pattern only
excluded_first_only(entry, excludes) ==
    /\ excludes # <<>>
    /\ path_match(entry.parts, excludes[1])

\* iter_files_recursive: the regular files of the tree that no pattern excludes
excluded(entry, excludes) ==
    /\ excludes # <<>>
    /\ \E k \in 1..Len(excludes) : path_match(entry.parts, excludes[k])

\* iter_files_recursive without the exclusion test
iter_files_recursive_all(tree, excludes) ==
    SelectSeq(tree, LAMBDA e : e.is_file)

iter_files_recursive(tree, excludes) ==
    SelectSeq(tree, LAMBDA e : e.is_file /\ ~excluded(e, excludes))

\* _is_locked_error
_is_locked_error(exc) ==
    exc.is_permission_error /\ (exc.has_winerror32 \/ exc.has_cannot_access)

\* copy_with_retries giving up one attempt early
except_branch_off_by_one(locked, skip_locked, att, retries) ==
    IF locked /\ skip_locked THEN "locked"
    ELSE IF att >= retries THEN "error"
    ELSE "retry"

\* copy_with_retries testing the retry count before the locked failure
except_branch_count_first(locked, skip_locked, att, retries) ==
    IF att > retries THEN "error"
    ELSE IF locked /\ skip_locked THEN "locked"
    ELSE "retry"

\* copy_with_retries skipping a locked file whatever skip_locked says
except_branch_always_skip(locked, skip_locked, att, retries) ==
    IF locked THEN "locked"
    ELSE IF att > retries THEN "error"
    ELSE "retry"

\* copy_with_retries, the except branch after attempt += 1: what the handler does
except_branch(locked, skip_locked, att, retries) ==
    IF locked /\ skip_locked THEN "locked"
    ELSE IF att > retries THEN "error"
    ELSE "retry"

(***************************************************************************)
(* Inputs: source trees, exclusion patterns, contents of the output folder.*)
(***************************************************************************)
a_txt == <<"a", ".", "t", "x", "t">>
a_1_txt == <<"a", " ", "(", "1", ")", ".", "t", "x", "t">>
a_2_txt == <<"a", " ", "(", "2", ")", ".", "t", "x", "t">>
b_TXT == <<"b", ".", "T", "X", "T">>
c_noext == <<"c">>
d_log == <<"d", ".", "l", "o", "g">>
skip_dir == <<"s", "k", "i", "p">>
x_dir == <<"x">>
y_dir == <<"y">>
txt == <<"t", "x", "t">>
star == <<"*">>
star_log == <<"*", ".", "l", "o", "g">>
Photo_JPG == <<"P", "h", "o", "t", "o", ".", "J", "P", "G">>
archive_tar_gz == <<"a", "r", "c", "h", "i", "v", "e", ".", "t", "a", "r", ".", "g", "z">>
README == <<"R", "E", "A", "D", "M", "E">>
gitignore == <<".", "g", "i", "t", "i", "g", "n", "o", "r", "e">>

File(parts) == [parts |-> parts, is_file |-> TRUE]
Dir(parts) == [parts |-> parts, is_file |-> FALSE]

\* a.txt, b.TXT, c and skip/d.log
TreeMixed ==
    <<File(<<a_txt>>), File(<<b_TXT>>), File(<<c_noext>>), Dir(<<skip_dir>>),
      File(<<skip_dir, d_log>>)>>
\* x/a.txt and y/a.txt: one file name in two subdirectories
TreeSameName ==
    <<Dir(<<x_dir>>), File(<<x_dir, a_txt>>), Dir(<<y_dir>>), File(<<y_dir, a_txt>>)>>
TreeOne == <<File(<<a_txt>>)>>
TreeNone == <<Dir(<<skip_dir>>)>>

\* --exclude-glob lists: "skip/*", and "*.log" with "x/*"
skip_all == <<<<skip_dir, star>>>>
logs_and_x == <<<<star_log>>, <<x_dir, star>>>>

Scene(src_ok, tree, excludes, dest0) ==
    [src_ok |-> src_ok, tree |-> tree, excludes |-> excludes, dest0 |-> dest0]

\* the source trees, pattern lists and contents of the output folder of the runs
Scenes ==
    {Scene(TRUE, TreeMixed, skip_all, {}),
     Scene(TRUE, TreeSameName, <<>>, {}),
     Scene(TRUE, TreeSameName, <<>>, {<<txt, a_txt>>}),
     Scene(TRUE, TreeSameName, logs_and_x, {<<txt, a_txt>>}),
     Scene(TRUE, TreeOne, <<>>, {<<txt, a_txt>>, <<txt, a_1_txt>>}),
     Scene(TRUE, TreeOne, skip_all, {}),
     Scene(TRUE, TreeNone, <<>>, {}),
     Scene(FALSE, TreeOne, <<>>, {})}

Config(scene, max_workers, retries, delay, skip_locked) ==
    [src_ok |-> scene.src_ok, tree |-> scene.tree, excludes |-> scene.excludes,
     dest0 |-> scene.dest0, max_workers |-> max_workers, retries |-> retries,
     delay |-> delay, skip_locked |-> skip_locked]

\* --retry-delay: a negative one and a positive one
Delays == {-1, 1}

Configs ==
    {Config(s, w, r, d, k) : s \in Scenes, w \in 0..MaxWorkers, r \in 0..MaxRetries,
                             d \in Delays, k \in BOOLEAN}

\* the runs with one retry and delay 1: every scene, every number of permits
PermitConfigs ==
    {Config(s, w, 1, 1, k) : s \in Scenes, w \in 0..MaxWorkers, k \in BOOLEAN}

\* file names of up to MaxNameLen characters, and the names the classification
\* is documented with
Alphabet == {"a", "B", "."}
RECURSIVE NamesOfLen(_)
NamesOfLen(n) ==
    IF n = 0 THEN {<<>>}
    ELSE {<<ch>> \o rest : ch \in Alphabet, rest \in NamesOfLen(n - 1)}
Names ==
    (UNION {NamesOfLen(n) : n \in 1..MaxNameLen} \ {<<".">>, <<".", ".">>})
        \cup {a_txt, Photo_JPG, archive_tar_gz, README, gitignore}

\* one file, into an output folder that holds none, one or two of its candidates
NameScenes ==
    {Scene(TRUE, <<File(<<n>>)>>, <<>>, d) : n \in Names, d \in {{}}}
    \cup {Scene(TRUE, <<File(<<n>>)>>, <<>>, {<<ext_folder_name(n), n>>}) : n \in Names}
    \cup {Scene(TRUE, TreeOne, <<>>, {<<txt, a_txt>>, <<txt, a_1_txt>>})}

NameConfigs == {Config(s, 1, 1, 1, k) : s \in NameScenes, k \in BOOLEAN}

\* the exceptions aioshutil.copy2 can raise, by what _is_locked_error reads of them
Exceptions ==
    [is_permission_error : BOOLEAN, has_winerror32 : BOOLEAN, has_cannot_access : BOOLEAN]

(***************************************************************************)
(* The run.                                                                *)
(***************************************************************************)
Tasks == DOMAIN pc

\* file name of the source file of task t (src.name)
src_name(t) == files[t].parts[Len(files[t].parts)]

Success == <<TRUE, "None">>
SkippedLocked == <<FALSE, "locked">>
Failed == <<FALSE, "error">>

InitWith(configs) ==
    /\ cfg \in configs
    /\ main_pc = "start"
    /\ exit_status = -1
    /\ files = <<>>
    /\ summary = <<>>
    /\ sem = 0
    /\ dirs = {p[1] : p \in cfg.dest0}
    /\ dest = [p \in cfg.dest0 |-> 0]
    /\ pc = <<>>
    /\ folder = <<>>
    /\ i = <<>>
    /\ target = <<>>
    /\ attempt = <<>>
    /\ backoff = <<>>
    /\ result = <<>>
    /\ copies = <<>>
    /\ waits = <<>>
    /\ locked_fails = <<>>

Init == InitWith(Configs)
InitNames == InitWith(NameConfigs)
InitPermits == InitWith(PermitConfigs)

\* read_folder without the check of the source root
ReadFolder_no_check ==
    /\ main_pc = "start"
    /\ LET found == iter_files_recursive(cfg.tree, cfg.excludes)
           T == 1..Len(found)
       IN  /\ files' = found
           /\ sem' = cfg.max_workers
           /\ IF found = <<>>
              THEN main_pc' = "returned" /\ exit_status' = 0
              ELSE main_pc' = "gather" /\ exit_status' = exit_status
           /\ pc' = [t \in T |-> "start"]
           /\ folder' = [t \in T |-> <<>>]
           /\ i' = [t \in T |-> 0]
           /\ target' = [t \in T |-> <<>>]
           /\ attempt' = [t \in T |-> 0]
           /\ backoff' = [t \in T |-> 0]
           /\ result' = [t \in T |-> <<>>]
           /\ copies' = [t \in T |-> 0]
           /\ waits' = [t \in T |-> <<>>]
           /\ locked_fails' = [t \in T |-> 0]
    /\ UNCHANGED <<cfg, summary, dirs, dest>>

\* main and read_folder up to the gather: the check of the source root, the scan
\* and the creation of one task per file
ReadFolder ==
    /\ main_pc = "start"
    /\ IF ~cfg.src_ok
       THEN /\ main_pc' = "raised"
            /\ exit_status' = 1
            /\ UNCHANGED <<files, sem, pc, folder, i, target, attempt, backoff,
                           result, copies, waits, locked_fails>>
       ELSE LET found == iter_files_recursive(cfg.tree, cfg.excludes)
                T == 1..Len(found)
            IN  /\ files' = found
                /\ sem' = cfg.max_workers
                /\ IF found = <<>>
                   THEN main_pc' = "returned" /\ exit_status' = 0
                   ELSE main_pc' = "gather" /\ exit_status' = exit_status
                /\ pc' = [t \in T |-> "start"]
                /\ folder' = [t \in T |-> <<>>]
                /\ i' = [t \in T |-> 0]
                /\ target' = [t \in T |-> <<>>]
                /\ attempt' = [t \in T |-> 0]
                /\ backoff' = [t \in T |-> 0]
                /\ result' = [t \in T |-> <<>>]
                /\ copies' = [t \in T |-> 0]
                /\ waits' = [t \in T |-> <<>>]
                /\ locked_fails' = [t \in T |-> 0]
    /\ UNCHANGED <<cfg, summary, dirs, dest>>

\* copy_file ending without a returned tuple
Return_nothing(t, r) ==
    /\ pc' = [pc EXCEPT ![t] = "done"]
    /\ UNCHANGED result

\* copy_file returns outcome r
Return(t, r) ==
    /\ pc' = [pc EXCEPT ![t] = "done"]
    /\ result' = [result EXCEPT ![t] = Append(@, r)]

\* copy_file with the directory creation outside its try block
Mkdir_uncaught(t) ==
    /\ pc[t] = "start"
    /\ folder' = [folder EXCEPT ![t] = ext_folder_name(src_name(t))]
    /\ \E ok \in BOOLEAN :
          IF ok
          THEN /\ dirs' = dirs \cup {folder'[t]}
               /\ pc' = [pc EXCEPT ![t] = "name"]
               /\ UNCHANGED <<main_pc, exit_status>>
          ELSE /\ main_pc' = "raised"
               /\ exit_status' = 1
               /\ UNCHANGED <<dirs, pc>>
    /\ UNCHANGED <<cfg, files, summary, sem, dest, i, target, result,
                   attempt, backoff, copies, waits, locked_fails>>

\* copy_file going on to the naming without awaiting the directory creation
Mkdir_not_awaited(t) ==
    /\ pc[t] = "start"
    /\ folder' = [folder EXCEPT ![t] = ext_folder_name(src_name(t))]
    /\ pc' = [pc EXCEPT ![t] = "name"]
    /\ UNCHANGED <<cfg, main_pc, exit_status, files, summary, sem, dirs, dest, i, target,
                   attempt, backoff, result, copies, waits, locked_fails>>

\* copy_file, first part: folder and the creation of the bucket directory
Mkdir(t) ==
    /\ pc[t] = "start"
    /\ folder' = [folder EXCEPT ![t] = ext_folder_name(src_name(t))]
    /\ \E ok \in BOOLEAN :
          IF ok
          THEN /\ dirs' = dirs \cup {folder'[t]}
               /\ pc' = [pc EXCEPT ![t] = "name"]
               /\ UNCHANGED result
          ELSE /\ Return(t, Failed)
               /\ UNCHANGED dirs
    /\ UNCHANGED <<cfg, main_pc, exit_status, files, summary, sem, dest, i, target,
                   attempt, backoff, copies, waits, locked_fails>>

\* copy_file with the naming inside "async with sem"
Probe_under_permit(t) ==
    /\ pc[t] = "name"
    /\ sem > 0
    /\ \E ok \in BOOLEAN :
          IF ~ok
          THEN Return(t, Failed) /\ UNCHANGED <<i, target>>
          ELSE LET cand == candidate(src_name(t), i[t])
               IN  IF <<folder[t], cand>> \in DOMAIN dest
                   THEN /\ i' = [i EXCEPT ![t] = @ + 1]
                        /\ UNCHANGED <<pc, target, result>>
                   ELSE /\ target' = [target EXCEPT ![t] = cand]
                        /\ pc' = [pc EXCEPT ![t] = "acquire"]
                        /\ UNCHANGED <<i, result>>
    /\ UNCHANGED <<cfg, main_pc, exit_status, files, summary, sem, dirs, dest, folder,
                   attempt, backoff, copies, waits, locked_fails>>

\* _unique_target_path, one existence test of its thread: the candidate is
\* returned when absent, the next one is tried otherwise; the test can raise
Probe(t) ==
    /\ pc[t] = "name"
    /\ \E ok \in BOOLEAN :
          IF ~ok
          THEN Return(t, Failed) /\ UNCHANGED <<i, target>>
          ELSE LET cand == candidate(src_name(t), i[t])
               IN  IF <<folder[t], cand>> \in DOMAIN dest
                   THEN /\ i' = [i EXCEPT ![t] = @ + 1]
                        /\ UNCHANGED <<pc, target, result>>
                   ELSE /\ target' = [target EXCEPT ![t] = cand]
                        /\ pc' = [pc EXCEPT ![t] = "acquire"]
                        /\ UNCHANGED <<i, result>>
    /\ UNCHANGED <<cfg, main_pc, exit_status, files, summary, sem, dirs, dest, folder,
                   attempt, backoff, copies, waits, locked_fails>>

\* copy_file entering the copy phase without waiting for a permit
Acquire_no_wait(t) ==
    /\ pc[t] = "acquire"
    /\ sem' = sem - 1
    /\ pc' = [pc EXCEPT ![t] = "copy"]
    /\ attempt' = [attempt EXCEPT ![t] = 0]
    /\ backoff' = [backoff EXCEPT ![t] = IF cfg.delay > 0 THEN cfg.delay ELSE 0]
    /\ UNCHANGED <<cfg, main_pc, exit_status, files, summary, dirs, dest, folder, i,
                   target, result, copies, waits, locked_fails>>

\* async with sem: a permit is taken; copy_with_retries starts
Acquire(t) ==
    /\ pc[t] = "acquire"
    /\ sem > 0
    /\ sem' = sem - 1
    /\ pc' = [pc EXCEPT ![t] = "copy"]
    /\ attempt' = [attempt EXCEPT ![t] = 0]
    /\ backoff' = [backoff EXCEPT ![t] = IF cfg.delay > 0 THEN cfg.delay ELSE 0]
    /\ UNCHANGED <<cfg, main_pc, exit_status, files, summary, dirs, dest, folder, i,
                   target, result, copies, waits, locked_fails>>

\* copy_with_retries: aioshutil.copy2(src, dst) is called
CopyStart(t) ==
    /\ pc[t] = "copy"
    /\ pc' = [pc EXCEPT ![t] = "copying"]
    /\ copies' = [copies EXCEPT ![t] = @ + 1]
    /\ UNCHANGED <<cfg, main_pc, exit_status, files, summary, sem, dirs, dest, folder,
                   i, target, attempt, backoff, result, waits, locked_fails>>

\* copy_with_retries: copy2 returns, and the task leaves the semaphore
CopyOk(t) ==
    /\ pc[t] = "copying"
    /\ dest' = [p \in DOMAIN dest \cup {<<folder[t], target[t]>>} |->
                   IF p = <<folder[t], target[t]>> THEN t ELSE dest[p]]
    /\ Return(t, Success)
    /\ sem' = sem + 1
    /\ UNCHANGED <<cfg, main_pc, exit_status, files, summary, dirs, folder, i, target,
                   attempt, backoff, copies, waits, locked_fails>>

\* copy_file keeping its permit when the copy ends with an error
CopyRaises_keeps_permit(t) ==
    /\ pc[t] = "copying"
    /\ \E exc \in Exceptions :
          LET locked == _is_locked_error(exc)
              branch == except_branch(locked, cfg.skip_locked, attempt[t] + 1, cfg.retries)
          IN  /\ locked_fails' = [locked_fails EXCEPT ![t] = IF locked THEN @ + 1 ELSE @]
              /\ attempt' = [attempt EXCEPT ![t] = @ + 1]
              /\ IF branch = "locked"
                 THEN /\ Return(t, SkippedLocked)
                      /\ sem' = sem + 1
                      /\ UNCHANGED waits
                 ELSE IF branch = "error"
                 THEN /\ Return(t, Failed)
                      /\ sem' = sem
                      /\ UNCHANGED waits
                 ELSE /\ pc' = [pc EXCEPT ![t] = "sleep"]
                      /\ waits' = [waits EXCEPT ![t] = Append(@, backoff[t])]
                      /\ sem' = sem
                      /\ UNCHANGED result
    /\ UNCHANGED <<cfg, main_pc, exit_status, files, summary, dirs, dest, folder, i,
                   target, backoff, copies>>

\* copy_with_retries giving its permit back while it sleeps
CopyRaises_frees_permit_to_sleep(t) ==
    /\ pc[t] = "copying"
    /\ \E exc \in Exceptions :
          LET locked == _is_locked_error(exc)
              branch == except_branch(locked, cfg.skip_locked, attempt[t] + 1, cfg.retries)
          IN  /\ locked_fails' = [locked_fails EXCEPT ![t] = IF locked THEN @ + 1 ELSE @]
              /\ attempt' = [attempt EXCEPT ![t] = @ + 1]
              /\ IF branch = "locked"
                 THEN /\ Return(t, SkippedLocked)
                      /\ sem' = sem + 1
                      /\ UNCHANGED waits
                 ELSE IF branch = "error"
                 THEN /\ Return(t, Failed)
                      /\ sem' = sem + 1
                      /\ UNCHANGED waits
                 ELSE /\ pc' = [pc EXCEPT ![t] = "sleep"]
                      /\ waits' = [waits EXCEPT ![t] = Append(@, backoff[t])]
                      /\ sem' = sem + 1
                      /\ UNCHANGED result
    /\ UNCHANGED <<cfg, main_pc, exit_status, files, summary, dirs, dest, folder, i,
                   target, backoff, copies>>

\* copy_with_retries: copy2 raises exc
CopyRaises(t) ==
    /\ pc[t] = "copying"
    /\ \E exc \in Exceptions :
          LET locked == _is_locked_error(exc)
              branch == except_branch(locked, cfg.skip_locked, attempt[t] + 1, cfg.retries)
          IN  /\ locked_fails' = [locked_fails EXCEPT ![t] = IF locked THEN @ + 1 ELSE @]
              /\ attempt' = [attempt EXCEPT ![t] = @ + 1]
              /\ IF branch = "locked"
                 THEN /\ Return(t, SkippedLocked)
                      /\ sem' = sem + 1
                      /\ UNCHANGED waits
                 ELSE IF branch = "error"
                 THEN /\ Return(t, Failed)
                      /\ sem' = sem + 1
                      /\ UNCHANGED waits
                 ELSE /\ pc' = [pc EXCEPT ![t] = "sleep"]
                      /\ waits' = [waits EXCEPT ![t] = Append(@, backoff[t])]
                      /\ UNCHANGED <<sem, result>>
    /\ UNCHANGED <<cfg, main_pc, exit_status, files, summary, dirs, dest, folder, i,
                   target, backoff, copies>>

\* copy_with_retries sleeping the same delay before every retry
Wake_same_delay(t) ==
    /\ pc[t] = "sleep"
    /\ pc' = [pc EXCEPT ![t] = "copy"]
    /\ UNCHANGED <<cfg, main_pc, exit_status, files, summary, sem, dirs, dest, folder,
                   i, target, attempt, backoff, result, copies, waits, locked_fails>>

\* copy_with_retries picking a new target before every retry
Wake_new_target(t) ==
    /\ pc[t] = "sleep"
    /\ backoff' = [backoff EXCEPT ![t] = @ * 2]
    /\ pc' = [pc EXCEPT ![t] = "copy"]
    /\ LET free == {n \in 0..Cardinality(DOMAIN dest) :
                       <<folder[t], candidate(src_name(t), n)>> \notin DOMAIN dest}
           first == CHOOSE n \in free : \A m \in free : n <= m
       IN  target' = [target EXCEPT ![t] = candidate(src_name(t), first)]
    /\ UNCHANGED <<cfg, main_pc, exit_status, files, summary, sem, dirs, dest, folder,
                   i, attempt, result, copies, waits, locked_fails>>

\* copy_with_retries: asyncio.sleep(backoff) is over; backoff *= 2
Wake(t) ==
    /\ pc[t] = "sleep"
    /\ backoff' = [backoff EXCEPT ![t] = @ * 2]
    /\ pc' = [pc EXCEPT ![t] = "copy"]
    /\ UNCHANGED <<cfg, main_pc, exit_status, files, summary, sem, dirs, dest, folder,
                   i, target, attempt, result, copies, waits, locked_fails>>

\* read_folder summing up as soon as one task has returned
Gather_first_completed ==
    /\ main_pc = "gather"
    /\ \E t \in Tasks : pc[t] = "done"
    /\ LET finished == {t \in Tasks : pc[t] = "done"}
           results == [t \in finished |-> result[t][1]]
           ok == Cardinality({t \in finished : results[t][1]})
           locked == Cardinality({t \in finished : ~results[t][1] /\ results[t][2] = "locked"})
           failed == Cardinality({t \in finished : ~results[t][1] /\ results[t][2] = "error"})
       IN  summary' = [ok |-> ok, locked |-> locked, failed |-> failed,
                       level |-> IF failed # 0 \/ locked # 0 THEN "WARNING" ELSE "INFO"]
    /\ main_pc' = "returned"
    /\ exit_status' = 0
    /\ UNCHANGED <<cfg, files, sem, dirs, dest, pc, folder, i, target, attempt,
                   backoff, result, copies, waits, locked_fails>>

\* read_folder after the gather: the counts and the summary line; main returns
Gather ==
    /\ main_pc = "gather"
    /\ \A t \in Tasks : pc[t] = "done"
    /\ LET results == [t \in Tasks |-> result[t][1]]
           ok == Cardinality({t \in Tasks : results[t][1]})
           locked == Cardinality({t \in Tasks : ~results[t][1] /\ results[t][2] = "locked"})
           failed == Cardinality({t \in Tasks : ~results[t][1] /\ results[t][2] = "error"})
       IN  summary' = [ok |-> ok, locked |-> locked, failed |-> failed,
                       level |-> IF failed # 0 \/ locked # 0 THEN "WARNING" ELSE "INFO"]
    /\ main_pc' = "returned"
    /\ exit_status' = 0
    /\ UNCHANGED <<cfg, files, sem, dirs, dest, pc, folder, i, target, attempt,
                   backoff, result, copies, waits, locked_fails>>

Next ==
    \/ ReadFolder
    \/ Gather
    \/ \E t \in Tasks : Mkdir(t)
    \/ \E t \in Tasks : Probe(t)
    \/ \E t \in Tasks : Acquire(t)
    \/ \E t \in Tasks : CopyStart(t)
    \/ \E t \in Tasks : CopyOk(t)
    \/ \E t \in Tasks : CopyRaises(t)
    \/ \E t \in Tasks : Wake(t)

Spec == Init /\ [][Next]_vars
SpecNames == InitNames /\ [][Next]_vars
SpecPermits == InitPermits /\ [][Next]_vars

(***************************************************************************)
(* Properties.                                                             *)
(***************************************************************************)
\* the tasks inside copy_with_retries, between acquiring and releasing sem
InCopyPhase == {t \in Tasks : pc[t] \in {"copy", "copying", "sleep"}}

\* a regular file of the source tree that no configured pattern matches
Retained(e) ==
    e.is_file /\ ~\E k \in 1..Len(cfg.excludes) : path_match(e.parts, cfg.excludes[k])

TreeEntries == {cfg.tree[j] : j \in 1..Len(cfg.tree)}

\* C1: with max_workers = N >= 1, at most N tasks are inside their copy phase at
\* any moment of the run, whatever the number of files and the interleaving.
C1_ConcurrencyBound ==
    cfg.max_workers >= 1 => Cardinality(InCopyPhase) <= cfg.max_workers

\* C1 witness: two permits, both taken, and a third task waiting for one.
C1_Witness ==
    /\ cfg.max_workers = 2
    /\ Cardinality(InCopyPhase) = 2
    /\ \E t \in Tasks : pc[t] = "acquire"

\* C2: no two source files of a run are copied onto the same destination path.
C2_NoSharedTarget ==
    \A t \in Tasks : \A u \in Tasks :
        (t # u /\ result[t] = <<Success>> /\ result[u] = <<Success>>)
            => <<folder[t], target[t]>> # <<folder[u], target[u]>>

\* C3: a task has returned exactly when it has one outcome, never two, and the
\* outcome is Success, SkippedLocked or Failed; when the run has completed, every
\* regular file of the tree that no pattern matches has exactly one task, and
\* that task has its outcome.
C3_OneOutcomePerFile ==
    /\ \A t \in Tasks :
          /\ Len(result[t]) <= 1
          /\ pc[t] = "done" <=> Len(result[t]) = 1
          /\ \A n \in 1..Len(result[t]) :
                result[t][n] \in {Success, SkippedLocked, Failed}
    /\ (main_pc = "returned" /\ cfg.src_ok) =>
          \A e \in TreeEntries :
              Retained(e) =>
                  /\ Cardinality({t \in Tasks : files[t] = e}) = 1
                  /\ \A t \in Tasks : files[t] = e => Len(result[t]) = 1

\* C3 witness: a completed run with one outcome of each kind.
C3_Witness ==
    /\ main_pc = "returned"
    /\ \E t \in Tasks : result[t] = <<Success>>
    /\ \E t \in Tasks : result[t] = <<SkippedLocked>>
    /\ \E t \in Tasks : result[t] = <<Failed>>

\* C4: once the tree is scanned, a regular file has a task if and only if no
\* configured pattern matches its relative path, so with no pattern every
\* regular file has one; only files that have a task are copied, and only they
\* get an outcome: skip/d.log under "skip/*" and x/a.txt under "*.log", "x/*"
\* have none, a.txt and y/a.txt have one.
C4_ExcludedIffMatched ==
    (main_pc # "start" /\ cfg.src_ok) =>
        /\ \A e \in TreeEntries :
              (\E t \in Tasks : files[t] = e) <=> Retained(e)
        /\ cfg.excludes = <<>> =>
              \A e \in TreeEntries : e.is_file => \E t \in Tasks : files[t] = e
        /\ cfg.excludes = skip_all =>
              /\ ~\E t \in Tasks : files[t] = File(<<skip_dir, d_log>>)
              /\ File(<<a_txt>>) \in TreeEntries => \E t \in Tasks : files[t] = File(<<a_txt>>)
        /\ cfg.excludes = logs_and_x =>
              /\ ~\E t \in Tasks : files[t] = File(<<x_dir, a_txt>>)
              /\ File(<<y_dir, a_txt>>) \in TreeEntries =>
                    \E t \in Tasks : files[t] = File(<<y_dir, a_txt>>)
        /\ \A p \in DOMAIN dest :
              p \in cfg.dest0 \/ (dest[p] \in Tasks /\ Retained(files[dest[p]]))

\* C4 witness: the run over x/a.txt and y/a.txt with "*.log" and "x/*" has
\* completed: y/a.txt was copied, x/a.txt has no task.
C4_Witness ==
    /\ main_pc = "returned"
    /\ cfg.tree = TreeSameName
    /\ cfg.excludes = logs_and_x
    /\ Len(files) = 1
    /\ result[1] = <<Success>>

\* C5: as long as none of its failures is a locked one, a task makes at most
\* retries + 1 copy attempts; it returns Success at the first attempt that
\* succeeds, after as many attempts as failures plus one; and when it returns
\* from the copy phase without success it has made exactly retries + 1 attempts
\* and returns Failed.
C5_AttemptCount ==
    \A t \in Tasks :
        locked_fails[t] = 0 =>
            /\ copies[t] <= cfg.retries + 1
            /\ pc[t] \in {"copy", "sleep"} => (copies[t] = attempt[t] /\ attempt[t] <= cfg.retries)
            /\ pc[t] = "copying" => copies[t] = attempt[t] + 1
            /\ result[t] = <<Success>> => copies[t] = attempt[t] + 1
            /\ (pc[t] = "done" /\ copies[t] > 0 /\ result[t] # <<Success>>) =>
                  /\ result[t] = <<Failed>>
                  /\ copies[t] = cfg.retries + 1
                  /\ attempt[t] = cfg.retries + 1

\* C5 witness: with two retries, one task has failed three times and returned
\* Failed, another has succeeded at its third attempt.
C5_Witness ==
    /\ cfg.retries = 2
    /\ \E t \in Tasks :
          locked_fails[t] = 0 /\ result[t] = <<Failed>> /\ copies[t] = 3
    /\ \E t \in Tasks :
          locked_fails[t] = 0 /\ result[t] = <<Success>> /\ copies[t] = 3

\* C6: with skip_locked, a task that has had a locked failure has returned
\* SkippedLocked at that failure: it is its only locked failure and its last
\* attempt, no wait follows it, whatever the retry count and the number of
\* attempts made before.
C6_SkipLockedAtOnce ==
    \A t \in Tasks :
        (cfg.skip_locked /\ locked_fails[t] > 0) =>
            /\ pc[t] = "done"
            /\ result[t] = <<SkippedLocked>>
            /\ locked_fails[t] = 1
            /\ copies[t] = attempt[t]
            /\ Len(waits[t]) = attempt[t] - 1

\* C6 witness: one task skipped at its first attempt without any wait, another
\* skipped at attempt retries + 1, after retries other failures.
C6_Witness ==
    /\ cfg.skip_locked
    /\ cfg.retries >= 1
    /\ \E t \in Tasks :
          result[t] = <<SkippedLocked>> /\ copies[t] = 1 /\ waits[t] = <<>>
    /\ \E t \in Tasks :
          result[t] = <<SkippedLocked>> /\ copies[t] = cfg.retries + 1

\* C7: when the output folder is still as the run found it, the target a task
\* has picked is the first absent one of filename, "stem (1)suffix",
\* "stem (2)suffix", ..., and is not in the folder: for a.txt it is a.txt in an
\* empty bucket, "a (1).txt" beside a.txt, "a (2).txt" beside both.
C7_FirstAbsentCandidate ==
    \A t \in Tasks :
        (pc[t] = "acquire" /\ DOMAIN dest = cfg.dest0) =>
            LET absent(n) == <<folder[t], candidate(src_name(t), n)>> \notin cfg.dest0
                first == CHOOSE n \in 0..Cardinality(cfg.dest0) :
                            absent(n) /\ \A m \in 0..(n - 1) : ~absent(m)
            IN  /\ \E n \in 0..Cardinality(cfg.dest0) : absent(n)
                /\ target[t] = candidate(src_name(t), first)
                /\ <<folder[t], target[t]>> \notin DOMAIN dest
                /\ (src_name(t) = a_txt /\ cfg.dest0 = {}) => target[t] = a_txt
                /\ (src_name(t) = a_txt /\ cfg.dest0 = {<<txt, a_txt>>}) =>
                      target[t] = a_1_txt
                /\ (src_name(t) = a_txt /\ cfg.dest0 = {<<txt, a_txt>>, <<txt, a_1_txt>>}) =>
                      target[t] = a_2_txt

\* C7 witness: a.txt beside txt/a.txt and "txt/a (1).txt" got "a (2).txt".
C7_Witness ==
    \E t \in Tasks :
        /\ pc[t] = "acquire"
        /\ src_name(t) = a_txt
        /\ cfg.dest0 = {<<txt, a_txt>>, <<txt, a_1_txt>>}
        /\ target[t] = a_2_txt

\* the text after the last "." of a name, lower-cased, or the sentinel when
\* there is no "." or nothing follows it
text_after_last_dot(name) ==
    LET k == rfind_dot(name)
    IN  IF k = 0 \/ k = Len(name) THEN no_extension
        ELSE lower(SubSeq(name, k + 1, Len(name)))

\* C8 as stated: the bucket of every file is the lower-cased text after the
\* last "." of its name, or no_extension when there is no "." or the text is
\* empty; ".gitignore" goes to "gitignore".
C8_AsStated ==
    \A t \in Tasks :
        folder[t] # <<>> =>
            /\ folder[t] = text_after_last_dot(src_name(t))
            /\ src_name(t) = gitignore => folder[t] = SubSeq(gitignore, 2, Len(gitignore))

\* C8 amended: for a name that does not start with "..", the bucket is the
\* lower-cased text after the last "." of the name, or no_extension when there
\* is no ".", when the last "." is the first character (".gitignore") or when
\* it is the last one: Photo.JPG goes to jpg, archive.tar.gz to gz, README and
\* .gitignore to no_extension.
C8_SuffixRule ==
    \A t \in Tasks :
        LET name == src_name(t)
            k == rfind_dot(name)
        IN  (folder[t] # <<>> /\ ~(Len(name) >= 2 /\ name[1] = "." /\ name[2] = ".")) =>
                /\ folder[t] = IF k = 0 \/ k = 1 \/ k = Len(name) THEN no_extension
                               ELSE lower(SubSeq(name, k + 1, Len(name)))
                /\ name = Photo_JPG => folder[t] = <<"j", "p", "g">>
                /\ name = archive_tar_gz => folder[t] = <<"g", "z">>
                /\ name = README => folder[t] = no_extension
                /\ name = gitignore => folder[t] = no_extension

\* C8 witness: .gitignore has been classified, as no_extension.
C8_Witness ==
    \E t \in Tasks : src_name(t) = gitignore /\ folder[t] = no_extension

\* C9: every file under out_root that the run did not find there is the target
\* of a task of a retained file; and after a run in which every copy succeeded
\* at once, each task's target is in out_root/<ext_folder_name>/ under the
\* source name or a "stem (N)suffix" of it.  For a.txt, b.TXT, c and skip/d.log
\* with "skip/*" and max_workers = 4 the output folder then holds txt/a.txt,
\* txt/b.TXT and no_extension/c and nothing else, and the summary is 3, 0, 0.
C9_Layout ==
    /\ \A p \in DOMAIN dest \ cfg.dest0 :
          \E t \in Tasks : p = <<folder[t], target[t]>> /\ Retained(files[t])
    /\ (main_pc = "returned" /\ \A t \in Tasks : result[t] = <<Success>> /\ attempt[t] = 0) =>
          /\ \A t \in Tasks :
                /\ <<folder[t], target[t]>> \in DOMAIN dest
                /\ folder[t] = ext_folder_name(src_name(t))
                /\ \E n \in 0..Cardinality(DOMAIN dest) :
                      target[t] = IF n = 0 THEN src_name(t)
                                  ELSE stem(src_name(t)) \o <<" ", "(">> \o str_int(n)
                                           \o <<")">> \o suffix(src_name(t))
          /\ (cfg.tree = TreeMixed /\ cfg.excludes = skip_all /\ cfg.max_workers = 4
                  /\ cfg.dest0 = {}) =>
                /\ DOMAIN dest = {<<txt, a_txt>>, <<txt, b_TXT>>, <<no_extension, c_noext>>}
                /\ summary = [ok |-> 3, locked |-> 0, failed |-> 0, level |-> "INFO"]

\* C9 witness: the run over a.txt, b.TXT, c and skip/d.log with four workers
\* has completed with three successes and no failed attempt.
C9_Witness ==
    /\ main_pc = "returned"
    /\ cfg.tree = TreeMixed /\ cfg.excludes = skip_all /\ cfg.max_workers = 4
    /\ \A t \in Tasks : result[t] = <<Success>> /\ attempt[t] = 0
    /\ summary # <<>>
    /\ summary.ok = 3

\* C10: a failure of one file never ends the run: the exit status is non-zero
\* only for a bad source root; a task that returned Failed holds no permit, so
\* the permits out are those of the tasks in their copy phase; while tasks are
\* gathered (and there is a permit at all) some task is between two of its
\* steps, or one can take a permit, or the gather can end; and when
\* read_folder has returned, it has returned normally with status 0 and every
\* task has its outcome.
C10_FailureContained ==
    /\ exit_status = 1 => ~cfg.src_ok
    /\ main_pc = "raised" => ~cfg.src_ok
    /\ main_pc = "gather" => sem + Cardinality(InCopyPhase) = cfg.max_workers
    /\ \A t \in Tasks : result[t] = <<Failed>> => (pc[t] = "done" /\ t \notin InCopyPhase)
    /\ (main_pc = "gather" /\ cfg.max_workers >= 1) =>
          \/ \E t \in Tasks : pc[t] \notin {"acquire", "done"}
          \/ ENABLED (\E t \in Tasks : Acquire(t))
          \/ ENABLED Gather
    /\ (main_pc = "returned" /\ cfg.src_ok) =>
          /\ exit_status = 0
          /\ \A t \in Tasks : Len(result[t]) = 1

\* C10 witness: a completed run with status 0 in which one file failed before
\* any copy attempt, one failed after retries + 1 attempts and one was copied.
C10_Witness ==
    /\ main_pc = "returned"
    /\ exit_status = 0
    /\ \E t \in Tasks : result[t] = <<Failed>> /\ copies[t] = 0
    /\ \E t \in Tasks : result[t] = <<Failed>> /\ copies[t] = cfg.retries + 1
    /\ \E t \in Tasks : result[t] = <<Success>>

\* C11: with a source root that is missing or no directory, read_folder raises
\* before anything is scheduled: there is never a task, a copy attempt or a new
\* file under out_root, and once read_folder has run, main has caught the
\* failure and the exit status is 1.
C11_BadRootFailsFast ==
    ~cfg.src_ok =>
        /\ Tasks = {}
        /\ files = <<>>
        /\ DOMAIN dest = cfg.dest0
        /\ summary = <<>>
        /\ main_pc \in {"start", "raised"}
        /\ main_pc = "raised" <=> exit_status = 1
        /\ exit_status # 0

\* C11 witness: the run on a bad source root has ended with status 1.
C11_Witness ==
    ~cfg.src_ok /\ main_pc = "raised" /\ exit_status = 1

\* C12: a summary exists only when every task has returned, and its three
\* counts are the numbers of Success, SkippedLocked and Failed outcomes; each
\* task is in exactly one of them and they add up to the number of tasks.
C12_SummaryAfterJoin ==
    summary # <<>> =>
        /\ main_pc = "returned"
        /\ \A t \in Tasks : pc[t] = "done" /\ Len(result[t]) = 1
        /\ summary.ok = Cardinality({t \in Tasks : result[t] = <<Success>>})
        /\ summary.locked = Cardinality({t \in Tasks : result[t] = <<SkippedLocked>>})
        /\ summary.failed = Cardinality({t \in Tasks : result[t] = <<Failed>>})
        /\ summary.ok + summary.locked + summary.failed = Len(files)
        /\ summary.level = "INFO" <=> summary.ok = Len(files)

\* C12 witness: a summary of three files with one outcome of each kind.
C12_Witness ==
    /\ summary # <<>>
    /\ summary.ok = 1 /\ summary.locked = 1 /\ summary.failed = 1

\* C13: for every configuration a run that has not completed is never stuck:
\* some task is between two of its steps, or a task waiting for a permit can
\* take one, or the gather can end.
C13_NeverStuck ==
    \/ main_pc \in {"start", "returned", "raised"}
    \/ \E t \in Tasks : pc[t] \notin {"acquire", "done"}
    \/ ENABLED (\E t \in Tasks : Acquire(t))
    \/ ENABLED Gather

\* 2 to the power n
RECURSIVE pow2(_)
pow2(n) == IF n = 0 THEN 1 ELSE 2 * pow2(n - 1)

\* C14: the k-th wait of a task is D * 2^(k-1), where D is the configured delay,
\* or 0 when that is negative; a task has waited once per failed attempt that
\* was retried, and its next wait is the doubled last one.
C14_BackoffDoubles ==
    \A t \in Tasks :
        LET D == IF cfg.delay < 0 THEN 0 ELSE cfg.delay
        IN  /\ \A k \in 1..Len(waits[t]) : waits[t][k] = D * pow2(k - 1)
            /\ pc[t] \in {"copy", "copying"} =>
                  (Len(waits[t]) = attempt[t] /\ backoff[t] = D * pow2(attempt[t]))
            /\ pc[t] = "sleep" =>
                  (Len(waits[t]) = attempt[t] /\ backoff[t] = D * pow2(attempt[t] - 1))
            /\ Len(waits[t]) <= cfg.retries

\* C14 witness: with delay 1 a task has waited 1 and then 2.
C14_Witness ==
    \E t \in Tasks : cfg.delay = 1 /\ waits[t] = <<1, 2>>

\* C15: without skip_locked no task ever returns SkippedLocked, and a task with
\* locked failures is retried like any other: it waits after every failure but
\* the last, makes at most retries + 1 attempts, and when all of them failed it
\* returns Failed.
C15_LockedRetriedWithoutSkip ==
    ~cfg.skip_locked =>
        \A t \in Tasks :
            /\ result[t] # <<SkippedLocked>>
            /\ locked_fails[t] > 0 =>
                  /\ copies[t] <= cfg.retries + 1
                  /\ pc[t] = "sleep" => Len(waits[t]) = attempt[t]
                  /\ (pc[t] = "done" /\ result[t] # <<Success>>) =>
                        /\ result[t] = <<Failed>>
                        /\ copies[t] = cfg.retries + 1
                        /\ attempt[t] = cfg.retries + 1
                        /\ Len(waits[t]) = cfg.retries

\* C15 witness: without skip_locked and with retries, a task whose attempts all
\* failed as locked has returned Failed.
C15_Witness ==
    /\ ~cfg.skip_locked
    /\ cfg.retries >= 1
    /\ \E t \in Tasks :
          result[t] = <<Failed>> /\ locked_fails[t] = cfg.retries + 1

\* C16: the permits out are those of the tasks in their copy phase, so a task
\* creating its directory or picking its name holds none; and when no permit is
\* free, a task that has not created its directory or not picked its name yet
\* can still take that step.
C16_NamingNeedsNoPermit ==
    main_pc = "gather" =>
        /\ sem = cfg.max_workers - Cardinality(InCopyPhase)
        /\ \A t \in Tasks :
              /\ pc[t] \in {"start", "name", "acquire"} => copies[t] = 0
              /\ (sem = 0 /\ pc[t] = "start") => ENABLED Mkdir(t)
              /\ (sem = 0 /\ pc[t] = "name") => ENABLED Probe(t)

\* C16 witness: every permit is held, one task is about to pick its name and
\* can, and another has picked its name and waits for a permit.
C16_Witness ==
    /\ cfg.max_workers >= 1
    /\ sem = 0
    /\ Cardinality(InCopyPhase) = cfg.max_workers
    /\ \E t \in Tasks : pc[t] = "name" /\ ENABLED Probe(t)
    /\ \E t \in Tasks : pc[t] = "acquire" /\ target[t] # <<>>

\* C17: once the tasks are created, the number of permits held is the number
\* of tasks inside their copy phase, a task that has returned holds none, and
\* when all tasks have returned all max_workers permits are free.
C17_PermitsHeldByCopyPhase ==
    (cfg.src_ok /\ main_pc # "start") =>
        /\ cfg.max_workers - sem = Cardinality(InCopyPhase)
        /\ sem <= cfg.max_workers
        /\ (\A t \in Tasks : pc[t] = "done") => sem = cfg.max_workers

\* C17 witness: a run has completed with all permits free after tasks left the
\* copy phase with Success, with SkippedLocked and with Failed.
C17_Witness ==
    /\ main_pc = "returned"
    /\ cfg.max_workers >= 1
    /\ sem = cfg.max_workers
    /\ \E t \in Tasks : result[t] = <<Success>>
    /\ \E t \in Tasks : result[t] = <<SkippedLocked>>
    /\ \E t \in Tasks : result[t] = <<Failed>> /\ copies[t] > 0

\* the steps a task takes, as pairs of positions
TaskSteps ==
    {<<"start", "name">>, <<"start", "done">>, <<"name", "acquire">>, <<"name", "done">>,
     <<"acquire", "copy">>, <<"copy", "copying">>, <<"copying", "sleep">>,
     <<"copying", "done">>, <<"sleep", "copy">>}

\* C18: every task goes through its steps in order: the directory creation,
\* then the naming, then the copy attempts, then the outcome.  A name is picked
\* only when the bucket directory is there and no copy was attempted, a copy is
\* attempted only with a picked name, an outcome ends the task and nothing of
\* the task changes after it.
C18_StepOrder ==
    [][\A t \in DOMAIN pc \cap DOMAIN pc' :
          /\ pc'[t] # pc[t] => <<pc[t], pc'[t]>> \in TaskSteps
          /\ (target'[t] # target[t] \/ i'[t] # i[t]) =>
                (pc[t] = "name" /\ folder[t] \in dirs /\ copies[t] = 0)
          /\ copies'[t] # copies[t] =>
                (pc[t] = "copy" /\ target[t] # <<>> /\ folder[t] \in dirs
                    /\ result[t] = <<>>)
          /\ result'[t] # result[t] => (pc'[t] = "done" /\ copies'[t] = copies[t])
          /\ pc[t] = "done" =>
                (pc'[t] = "done" /\ result'[t] = result[t] /\ copies'[t] = copies[t]
                    /\ target'[t] = target[t])]_vars

\* C18 witness: a later file has its outcome before an earlier one has begun.
C18_Witness ==
    \E t \in Tasks : \E u \in Tasks :
        t < u /\ pc[t] = "start" /\ result[u] = <<Success>>

\* the tasks that hold a permit after a failed attempt
Retrying ==
    {t \in Tasks : pc[t] = "sleep" \/ (pc[t] \in {"copy", "copying"} /\ attempt[t] > 0)}

\* C19: a task that sleeps between two attempts still holds its permit: while
\* as many tasks as there are permits are retrying, no permit is free and no
\* waiting task, none of which has attempted a copy, can take one.
C19_PermitKeptInBackoff ==
    /\ \A t \in Tasks : pc[t] = "sleep" => sem < cfg.max_workers
    /\ (main_pc = "gather" /\ Cardinality(Retrying) = cfg.max_workers) =>
          /\ sem = 0
          /\ \A t \in Tasks :
                pc[t] = "acquire" => (copies[t] = 0 /\ ~ENABLED Acquire(t))

\* C19 witness: the only permit is held by a sleeping task and another task
\* waits for it.
C19_Witness ==
    /\ cfg.max_workers = 1
    /\ \E t \in Tasks : pc[t] = "sleep"
    /\ \E t \in Tasks : pc[t] = "acquire"

\* C20: the target of a task is set once, by the naming step that ends the
\* naming, before the permit is taken and before any copy attempt; from then on
\* neither the target nor the counter of the naming changes, and a successful
\* copy, first attempt or retry, writes that target.
C20_TargetFixed ==
    [][\A t \in DOMAIN pc \cap DOMAIN pc' :
          /\ target'[t] # target[t] =>
                (pc[t] = "name" /\ pc'[t] = "acquire" /\ target[t] = <<>> /\ copies[t] = 0)
          /\ pc[t] \notin {"start", "name"} =>
                (target'[t] = target[t] /\ i'[t] = i[t] /\ folder'[t] = folder[t])
          /\ (pc[t] = "copying" /\ result'[t] = <<Success>>) =>
                (<<folder[t], target[t]>> \in DOMAIN dest' /\ dest'[<<folder[t], target[t]>>] = t)]_vars

\* C20 witness: a task is retrying onto its target although another task has
\* meanwhile created that path.
C20_Witness ==
    \E t \in Tasks : \E u \in Tasks :
        /\ t # u
        /\ pc[t] \in {"copy", "copying"}
        /\ attempt[t] >= 1
        /\ <<folder[t], target[t]>> \in DOMAIN dest
        /\ dest[<<folder[t], target[t]>>] = u

====
